---- MODULE Spec2Model ----
(***************************************************************************)
(* Airline reservation backend (src/backend.js, JSON-file server part,     *)
(* lines 547-1970, and the older src/backend1.js that shares its files).   *)
(* The state is the content of flights.json and customers.json; every      *)
(* Express handler is one action that loads, checks, mutates and saves.    *)
(* `response` is the HTTP response of the last request together with the   *)
(* request parameters the handler read.                                    *)
(*                                                                         *)
(* Not modelled: the values of timestamps (a booking only records whether  *)
(* it has a cancellationDate), meal / special request / ticket sub-objects *)
(* of a booking, the fields of a baggage item (an item is a name),         *)
(* transaction and refund identifiers, name / email / password,            *)
(* the airline of a flight.  Departure and arrival times are numbers, in   *)
(* the order of the dates their strings parse to.                          *)
(* Money is in whole dollars, refunds in cents, pointsPerDollar in tenths. *)
(***************************************************************************)
EXTENDS Integers, Sequences, FiniteSets, TLC

VARIABLES flights, customers, response

vars == <<flights, customers, response>>

---------------------------------------------------------------------------
(* Bounds of the model *)

\* customers.json holds at most this many booking, payment, refund and
\* redemption records and baggage items in all; a request that would add one
\* more is not taken
MaxRecords == 4

\* addSeat is called at most this many times on a Flight object
MaxSeats == 4

\* flights.json holds at most this many flights; POST /flights is not sent
\* when it is full
MaxFlights == 2

---------------------------------------------------------------------------
(* Values *)

\* a field that is undefined / null / missing in the JSON
Absent == "absent"

Customers == {"c1", "c2"}
UnknownCustomer == "c9"

\* new Seat(seatNumber || "Unassigned", ...) in bookFlight
Unassigned == "Unassigned"

\* response messages of the handlers, under the names the design gives them
CustomerNotFound == "Customer not found."
FlightNotFound == "Flight not found."
DuplicateFlightNumber == "Flight number must be unique. This flight number already exists."
RenameCollision == "Cannot change to this flightNumber, it already exists."
InvalidTimeRange == "Flight departure time must be before arrival time."
DuplicateSeat == "Duplicate seats are not allowed in a flight."
NoSeatMap == "No seats available for this flight."
SeatNotFound == "Seat not found in this flight."
SeatOccupied == "Seat is already occupied."
DuplicateSeatBooking == "You have already booked this seat."
DuplicateBooking == "You have already booked this flight."
NotBooked == "You have not booked this flight yet."
AmountMismatch == "Payment amount must be equal to the total flight cost."
InvalidCardNumber == "Invalid credit card number. Must be exactly 12 digits."
InvalidCvv == "Invalid CVV. Must be 3 digits."
BookingNotFound == "Booking not found."
AlreadyEnrolled == "You are already enrolled in a loyalty program."
MissingFields == "Missing required fields: pointsToRedeem and rewardType are required."
NotPositive == "Points to redeem must be a positive number."
InsufficientPoints == "Insufficient loyalty points for redemption."
InvalidRewardType == "Invalid reward type. Valid types include: freeFlight, upgrade, lounge, baggage"
InvalidBaggage == "Invalid baggage format. Provide an array or an object."
InternalError == "TypeError"
\* the answer to a request whose handler threw in fs.writeFileSync
WriteError == "Error: write failed"

---------------------------------------------------------------------------
(* Strings *)

\* String.prototype.trim on the strings the requests use
trim(text) ==
  CASE text = " F1" -> "F1"
    [] text = " Paris" -> "Paris"
    [] text = "PARIS " -> "PARIS"
    [] text = "paris " -> "paris"
    [] text = " paris" -> "paris"
    [] OTHER -> text

\* String.prototype.toLowerCase on the strings the requests use
ToLowerCase(text) ==
  CASE text = "freeFlight" -> "freeflight"
    [] text = "Lounge" -> "lounge"
    [] text = "Paris" -> "paris"
    [] text = " Paris" -> " paris"
    [] text = "PARIS" -> "paris"
    [] text = "PARIS " -> "paris "
    [] text = "Rome" -> "rome"
    [] text = "ROME" -> "rome"
    [] OTHER -> text

---------------------------------------------------------------------------
(* Array helpers *)

\* Array.prototype.findIndex / find: the first index whose element passes, 0 if none
FindIndex(seq, Test(_)) ==
  IF \E i \in 1..Len(seq) : Test(seq[i])
  THEN CHOOSE i \in 1..Len(seq) : Test(seq[i]) /\ \A j \in 1..(i - 1) : ~Test(seq[j])
  ELSE 0

\* a forEach that overwrites its result on every match: the last index that passes
FindLastIndex(seq, Test(_)) ==
  IF \E i \in 1..Len(seq) : Test(seq[i])
  THEN CHOOSE i \in 1..Len(seq) : Test(seq[i]) /\ \A j \in (i + 1)..Len(seq) : ~Test(seq[j])
  ELSE 0

FlightIndex(fs, flightNumber) ==
  LET Same(f) == f.flightNumber = flightNumber IN FindIndex(fs, Same)

SeatIndex(seats, seatNumber) ==
  LET Same(s) == s.seatNumber = seatNumber IN FindIndex(seats, Same)

\* HasDuplicateSeats with a Set of the seats instead of their numbers
HasDuplicateSeatRecords(seats) ==
  Cardinality({seats[i] : i \in 1..Len(seats)}) # Len(seats)

\* new Set(seatNumbers).size !== seatNumbers.length
HasDuplicateSeats(seats) ==
  Cardinality({seats[i].seatNumber : i \in 1..Len(seats)}) # Len(seats)

\* if (typeof seat.isOccupied !== 'boolean') seat.isOccupied = false
NormalizeSeats(seats) ==
  [i \in 1..Len(seats) |->
     [seatNumber |-> seats[i].seatNumber, isOccupied |-> (seats[i].isOccupied = "true")]]

---------------------------------------------------------------------------
(* Records *)

NewCustomer ==
  [bookings |-> <<>>, payments |-> <<>>, refunds |-> <<>>, redemptions |-> <<>>,
   loyaltyPoints |-> 0, enrolled |-> FALSE, level |-> Absent,
   pointsPerDollar |-> 0, totalSpent |-> 0]

RECURSIVE BaggageCount(_)
\* the baggage items stored in a list of bookings
BaggageCount(bookings) ==
  IF bookings = <<>> THEN 0
  ELSE Len(Head(bookings).baggage) + BaggageCount(Tail(bookings))

\* the records stored under one customer
RecordCount(customer) ==
  Len(customer.bookings) + Len(customer.payments)
  + Len(customer.refunds) + Len(customer.redemptions)
  + BaggageCount(customer.bookings)

RECURSIVE CountRecords(_, _)
CountRecords(cs, ids) ==
  IF ids = {} THEN 0
  ELSE LET c == CHOOSE x \in ids : TRUE
       IN RecordCount(cs[c]) + CountRecords(cs, ids \ {c})

\* the number of records stored under all customers
StoredRecords == CountRecords(customers, DOMAIN customers)

HasRoom == StoredRecords < MaxRecords

\* what the handler read from the request, and what it answered
Reply(op, customerId, flightNumber, seatNumber, bookingId, amount, status, message) ==
  [op |-> op, customerId |-> customerId, flightNumber |-> flightNumber,
   seatNumber |-> seatNumber, bookingId |-> bookingId, amount |-> amount,
   status |-> status, message |-> message]

\* customers c1 and c2 have registered (POST /register); no flight exists yet
Init ==
  /\ flights = <<>>
  /\ customers = [c \in Customers |-> NewCustomer]
  /\ response = Reply("none", Absent, Absent, Absent, Absent, 0, 0, "")

---------------------------------------------------------------------------
(* Flight inventory: POST /flights, PUT /flights/:n, DELETE /flights/:n *)

\* POST /flights. hasSeats: the body carries an availableSeats array; origin or
\* destination Absent: the body does not carry the field.
addFlight(flightNumber, departureTime, arrivalTime, origin, destination, price, hasSeats, seats) ==
  LET Answer(status, message) ==
        Reply("addFlight", Absent, flightNumber, Absent, Absent, price, status, message)
  IN
  /\ UNCHANGED customers
  /\ IF FlightIndex(flights, flightNumber) # 0
     THEN /\ response' = Answer(400, DuplicateFlightNumber)
          /\ UNCHANGED flights
     ELSE IF departureTime >= arrivalTime
     THEN /\ response' = Answer(400, InvalidTimeRange)
          /\ UNCHANGED flights
     ELSE IF hasSeats /\ HasDuplicateSeats(seats)
     THEN /\ response' = Answer(400, DuplicateSeat)
          /\ UNCHANGED flights
     \* origin.trim() on a missing field throws
     ELSE IF origin = Absent \/ destination = Absent
     THEN /\ response' = Answer(500, InternalError)
          /\ UNCHANGED flights
     ELSE /\ flights' = Append(flights,
               [flightNumber |-> trim(flightNumber), departureTime |-> departureTime,
                arrivalTime |-> arrivalTime, origin |-> trim(origin),
                destination |-> trim(destination), price |-> price,
                hasSeats |-> hasSeats,
                availableSeats |-> IF hasSeats THEN NormalizeSeats(seats) ELSE <<>>])
          /\ response' = Answer(201, "Flight added successfully.")

\* findFlights comparing with the query parameters as they came, not trimmed
findFlightsUntrimmed(fs, origin, destination) ==
  LET FromOrigin(flight) == ToLowerCase(flight.origin) = ToLowerCase(origin)
      ToDestination(flight) == ToLowerCase(flight.destination) = ToLowerCase(destination)
      fromOrigin == IF origin \in {Absent, ""} THEN fs ELSE SelectSeq(fs, FromOrigin)
  IN IF destination \in {Absent, ""} THEN fromOrigin
     ELSE SelectSeq(fromOrigin, ToDestination)

\* GET /flights?origin=..&destination=..: the flights the response lists.  A
\* query parameter that is Absent or empty does not filter.
findFlights(fs, origin, destination) ==
  LET FromOrigin(flight) ==
        ToLowerCase(flight.origin) = trim(ToLowerCase(origin))
      ToDestination(flight) ==
        ToLowerCase(flight.destination) = trim(ToLowerCase(destination))
      fromOrigin == IF origin \in {Absent, ""} THEN fs ELSE SelectSeq(fs, FromOrigin)
  IN IF destination \in {Absent, ""} THEN fromOrigin
     ELSE SelectSeq(fromOrigin, ToDestination)

\* ApplyPatch assigning availableSeats whether the body carries it or not
ApplyPatchWithSeats(old, patch) ==
  [flightNumber |-> IF patch.hasNewFlightNumber
                    THEN trim(patch.newFlightNumber) ELSE old.flightNumber,
   departureTime |-> IF patch.hasDepartureTime
                     THEN patch.departureTime ELSE old.departureTime,
   arrivalTime |-> IF patch.hasArrivalTime THEN patch.arrivalTime ELSE old.arrivalTime,
   origin |-> IF patch.hasOrigin THEN trim(patch.origin) ELSE old.origin,
   destination |-> IF patch.hasDestination
                   THEN trim(patch.destination) ELSE old.destination,
   price |-> IF patch.hasPrice THEN patch.price ELSE old.price,
   hasSeats |-> old.hasSeats \/ patch.hasSeats,
   availableSeats |-> NormalizeSeats(patch.availableSeats)]

\* "Update the flight object" of the PUT handler: the flight with the fields
\* of the body assigned
ApplyPatch(old, patch) ==
  [flightNumber |-> IF patch.hasNewFlightNumber
                    THEN trim(patch.newFlightNumber) ELSE old.flightNumber,
   departureTime |-> IF patch.hasDepartureTime
                     THEN patch.departureTime ELSE old.departureTime,
   arrivalTime |-> IF patch.hasArrivalTime THEN patch.arrivalTime ELSE old.arrivalTime,
   origin |-> IF patch.hasOrigin THEN trim(patch.origin) ELSE old.origin,
   destination |-> IF patch.hasDestination
                   THEN trim(patch.destination) ELSE old.destination,
   price |-> IF patch.hasPrice THEN patch.price ELSE old.price,
   hasSeats |-> old.hasSeats \/ patch.hasSeats,
   availableSeats |-> IF patch.hasSeats
                      THEN NormalizeSeats(patch.availableSeats)
                      ELSE old.availableSeats]

\* PUT /flights/:flightNumber. patch.hasX: the body carries field X.
updateFlight(flightNumber, patch) ==
  LET Answer(status, message) ==
        Reply("updateFlight", Absent, flightNumber, Absent, Absent, 0, status, message)
      flightIndex == FlightIndex(flights, flightNumber)
      old == flights[flightIndex]
  IN
  /\ UNCHANGED customers
  /\ IF flightIndex = 0
     THEN /\ response' = Answer(404, FlightNotFound)
          /\ UNCHANGED flights
     ELSE IF /\ patch.hasNewFlightNumber
             /\ trim(patch.newFlightNumber) # flightNumber
             /\ \E i \in 1..Len(flights) :
                  /\ flights[i].flightNumber = trim(patch.newFlightNumber)
                  /\ flights[i].flightNumber # flightNumber
     THEN /\ response' = Answer(400, RenameCollision)
          /\ UNCHANGED flights
     ELSE IF /\ patch.hasDepartureTime /\ patch.hasArrivalTime
             /\ patch.departureTime >= patch.arrivalTime
     THEN /\ response' = Answer(400, InvalidTimeRange)
          /\ UNCHANGED flights
     ELSE IF patch.hasSeats /\ HasDuplicateSeats(patch.availableSeats)
     THEN /\ response' = Answer(400, DuplicateSeat)
          /\ UNCHANGED flights
     ELSE /\ flights' = [flights EXCEPT ![flightIndex] = ApplyPatch(old, patch)]
          /\ response' = Answer(200, "Flight updated successfully.")

\* DELETE /flights/:flightNumber
deleteFlight(flightNumber) ==
  LET Answer(status, message) ==
        Reply("deleteFlight", Absent, flightNumber, Absent, Absent, 0, status, message)
      flightIndex == FlightIndex(flights, flightNumber)
  IN
  /\ UNCHANGED customers
  /\ IF flightIndex = 0
     THEN /\ response' = Answer(404, FlightNotFound)
          /\ UNCHANGED flights
     ELSE /\ flights' = [i \in 1..(Len(flights) - 1) |->
                           IF i < flightIndex THEN flights[i] ELSE flights[i + 1]]
          /\ response' = Answer(200, "Flight deleted successfully.")

---------------------------------------------------------------------------
(* Bookings.  An element of customer.bookings is one of
     kind "string": the flight number itself (bookFlight of backend1.js),
     kind "object", seatNumber set:  { flightNumber, seatNumber } (bookSeat),
     kind "object", seat set:  a Booking with bookingId and seat.seatNumber
                               (bookFlight of backend.js).
   status and cancellationDate are Absent until the booking is cancelled;
   baggage is the booking's baggage array (empty: none).                   *)

StringBooking(flightNumber) ==
  [kind |-> "string", bookingId |-> Absent, flightNumber |-> flightNumber,
   seatNumber |-> Absent, seat |-> Absent, status |-> Absent,
   cancellationDate |-> Absent, baggage |-> <<>>]

SeatBooking(flightNumber, seatNumber) ==
  [kind |-> "object", bookingId |-> Absent, flightNumber |-> flightNumber,
   seatNumber |-> seatNumber, seat |-> Absent, status |-> Absent,
   cancellationDate |-> Absent, baggage |-> <<>>]

ClassBooking(bookingId, flightNumber, seatNumber) ==
  [kind |-> "object", bookingId |-> bookingId, flightNumber |-> flightNumber,
   seatNumber |-> Absent,
   seat |-> IF seatNumber = Absent THEN Unassigned ELSE seatNumber,
   status |-> Absent, cancellationDate |-> Absent, baggage |-> <<>>]

\* flights with seat seatIndex of flight flightIndex set to occupied
SetOccupied(fs, flightIndex, seatIndex, occupied) ==
  [fs EXCEPT ![flightIndex].availableSeats[seatIndex].isOccupied = occupied]

\* POST /customer/:customerId/bookSeat
bookSeat(customerId, flightNumber, seatNumber) ==
  LET Answer(status, message) ==
        Reply("bookSeat", customerId, flightNumber, seatNumber, Absent, 0, status, message)
      flightIndex == FlightIndex(flights, flightNumber)
      flight == flights[flightIndex]
      seatIndex == SeatIndex(flight.availableSeats, seatNumber)
      Fail(status, message) ==
        /\ response' = Answer(status, message)
        /\ UNCHANGED <<flights, customers>>
  IN
  IF customerId \notin DOMAIN customers THEN Fail(404, CustomerNotFound)
  ELSE IF flightIndex = 0 THEN Fail(404, FlightNotFound)
  ELSE IF ~flight.hasSeats THEN Fail(400, NoSeatMap)
  ELSE IF seatIndex = 0 THEN Fail(404, SeatNotFound)
  ELSE IF flight.availableSeats[seatIndex].isOccupied THEN Fail(400, SeatOccupied)
  ELSE IF \E i \in 1..Len(customers[customerId].bookings) :
            LET b == customers[customerId].bookings[i] IN
              /\ b.kind = "object"
              /\ b.flightNumber = flightNumber
              /\ b.seatNumber = seatNumber
       THEN Fail(400, DuplicateSeatBooking)
  ELSE /\ HasRoom
       /\ flights' = SetOccupied(flights, flightIndex, seatIndex, TRUE)
       /\ customers' = [customers EXCEPT ![customerId].bookings =
                          Append(@, SeatBooking(flightNumber, seatNumber))]
       /\ response' = Answer(200, "Seat booked successfully.")

\* POST /customer/:customerId/bookFlight (backend.js).  seatNumber is Absent
\* when the body names no seat; bookingId is what generateBookingId returns.
bookFlight(customerId, flightNumber, seatNumber, bookingId) ==
  LET Answer(status, message) ==
        Reply("bookFlight", customerId, flightNumber, seatNumber, bookingId, 0,
              status, message)
      flightIndex == FlightIndex(flights, flightNumber)
      flight == flights[flightIndex]
      seatIndex == SeatIndex(flight.availableSeats, seatNumber)
      Fail(status, message) ==
        /\ response' = Answer(status, message)
        /\ UNCHANGED <<flights, customers>>
  IN
  IF customerId \notin DOMAIN customers THEN Fail(404, CustomerNotFound)
  ELSE IF flightIndex = 0 THEN Fail(404, FlightNotFound)
  ELSE IF \E i \in 1..Len(customers[customerId].bookings) :
            customers[customerId].bookings[i].flightNumber = flightNumber
       THEN Fail(400, DuplicateBooking)
  \* flight.availableSeats.find on a flight stored without a seat array throws
  ELSE IF seatNumber # Absent /\ ~flight.hasSeats THEN Fail(500, InternalError)
  ELSE /\ HasRoom
       /\ flights' =
            IF /\ seatNumber # Absent
               /\ seatIndex # 0
               /\ ~flight.availableSeats[seatIndex].isOccupied
            THEN SetOccupied(flights, flightIndex, seatIndex, TRUE)
            ELSE flights
       /\ customers' = [customers EXCEPT ![customerId].bookings =
                          Append(@, ClassBooking(bookingId, flightNumber, seatNumber))]
       /\ response' = Answer(201, "Flight booked successfully with classes.")

\* bookSeat when saveJSON throws on the file `failing`: the handler saves
\* customers.json first and flights.json second, and an exception ends it
\* (status 500) with the files written so far left as they are.
bookSeatSaveFails(customerId, flightNumber, seatNumber, failing) ==
  LET flightIndex == FlightIndex(flights, flightNumber)
      flight == flights[flightIndex]
      seatIndex == SeatIndex(flight.availableSeats, seatNumber)
  IN
  \* the handler reaches its saves
  /\ customerId \in DOMAIN customers
  /\ flightIndex # 0
  /\ flight.hasSeats
  /\ seatIndex # 0
  /\ ~flight.availableSeats[seatIndex].isOccupied
  /\ ~\E i \in 1..Len(customers[customerId].bookings) :
        LET b == customers[customerId].bookings[i] IN
          /\ b.kind = "object"
          /\ b.flightNumber = flightNumber
          /\ b.seatNumber = seatNumber
  /\ HasRoom
  /\ customers' = IF failing = "customers.json" THEN customers
                  ELSE [customers EXCEPT ![customerId].bookings =
                          Append(@, SeatBooking(flightNumber, seatNumber))]
  /\ UNCHANGED flights
  /\ response' = Reply("bookSeat", customerId, flightNumber, seatNumber, Absent, 0,
                       500, WriteError)

\* bookFlight when saveJSON throws on the file `failing`: the handler saves
\* flights.json when it marks the seat, and customers.json at its end.
bookFlightSaveFails(customerId, flightNumber, seatNumber, bookingId, failing) ==
  LET flightIndex == FlightIndex(flights, flightNumber)
      flight == flights[flightIndex]
      seatIndex == SeatIndex(flight.availableSeats, seatNumber)
      marks == /\ seatNumber # Absent
               /\ seatIndex # 0
               /\ ~flight.availableSeats[seatIndex].isOccupied
  IN
  \* the handler reaches the save that fails
  /\ customerId \in DOMAIN customers
  /\ flightIndex # 0
  /\ ~\E i \in 1..Len(customers[customerId].bookings) :
        customers[customerId].bookings[i].flightNumber = flightNumber
  /\ ~(seatNumber # Absent /\ ~flight.hasSeats)
  /\ failing = "flights.json" => marks
  /\ HasRoom
  /\ flights' = IF failing = "customers.json" /\ marks
                THEN SetOccupied(flights, flightIndex, seatIndex, TRUE)
                ELSE flights
  /\ UNCHANGED customers
  /\ response' = Reply("bookFlight", customerId, flightNumber, seatNumber, bookingId, 0,
                       500, WriteError)

\* POST /customer/:customerId/bookFlight of backend1.js, the older server over
\* the same customers.json: it stores the flight number itself.
bookFlightLegacy(customerId, flightNumber) ==
  LET Answer(status, message) ==
        Reply("bookFlightLegacy", customerId, flightNumber, Absent, Absent, 0,
              status, message)
      Fail(status, message) ==
        /\ response' = Answer(status, message)
        /\ UNCHANGED <<flights, customers>>
  IN
  IF customerId \notin DOMAIN customers THEN Fail(404, CustomerNotFound)
  ELSE IF FlightIndex(flights, flightNumber) = 0 THEN Fail(404, FlightNotFound)
  ELSE IF \E i \in 1..Len(customers[customerId].bookings) :
            LET b == customers[customerId].bookings[i] IN
              b.kind = "string" /\ b.flightNumber = flightNumber
       THEN Fail(400, DuplicateBooking)
  ELSE /\ HasRoom
       /\ customers' = [customers EXCEPT ![customerId].bookings =
                          Append(@, StringBooking(flightNumber))]
       /\ response' = Answer(200, "Flight booked successfully.")
       /\ UNCHANGED flights

---------------------------------------------------------------------------
(* Baggage.  The baggage of a request is [kind, items]: an array of the
   items, a single object (items holds it alone), or anything else. *)

\* the items the handler pushes: push(...baggage) of an array, push(baggage)
\* of an object
Pushed(baggage) ==
  IF baggage.kind = "array" THEN baggage.items ELSE <<baggage.items[1]>>

\* WithBaggage assigning the new items instead of pushing them
WithBaggageReplaced(booking, baggage) ==
  [booking EXCEPT !.kind = "object", !.baggage = Pushed(baggage)]

\* WithBaggage storing the object without the flight number of the string
WithBaggageUnnumbered(booking, baggage) ==
  [booking EXCEPT !.kind = "object",
                  !.flightNumber = IF booking.kind = "string" THEN Absent ELSE @,
                  !.baggage = @ \o Pushed(baggage)]

\* steps 3 and 4 of the baggage handler: bookingObj with the items pushed; a
\* string booking becomes the object { flightNumber }
WithBaggage(booking, baggage) ==
  [booking EXCEPT !.kind = "object",
                  !.baggage = @ \o Pushed(baggage)]

\* addBaggage writing bookingObj back and saving before it looks at the
\* format of the baggage
addBaggageSavingFirst(customerId, flightNumber, baggage) ==
  LET Answer(status, message) ==
        Reply("addBaggage", customerId, flightNumber, Absent, Absent, 0, status, message)
      Fail(status, message) ==
        /\ response' = Answer(status, message)
        /\ UNCHANGED <<flights, customers>>
      Booked(b) == b.flightNumber = flightNumber
      bookingIndex == FindLastIndex(customers[customerId].bookings, Booked)
      found == customers[customerId].bookings[bookingIndex]
  IN
  IF customerId \notin DOMAIN customers THEN Fail(404, CustomerNotFound)
  ELSE IF FlightIndex(flights, flightNumber) = 0 THEN Fail(404, FlightNotFound)
  ELSE IF bookingIndex = 0 THEN Fail(400, NotBooked)
  ELSE IF baggage.kind \notin {"array", "object"}
       THEN /\ customers' = [customers EXCEPT ![customerId].bookings[bookingIndex] =
                               [found EXCEPT !.kind = "object"]]
            /\ response' = Answer(400, InvalidBaggage)
            /\ UNCHANGED flights
  ELSE /\ StoredRecords + Len(Pushed(baggage)) <= MaxRecords
       /\ customers' = [customers EXCEPT ![customerId].bookings[bookingIndex] =
                          WithBaggage(found, baggage)]
       /\ response' = Answer(200, "Baggage added successfully.")
       /\ UNCHANGED flights

\* POST /customer/:customerId/addBaggage
addBaggage(customerId, flightNumber, baggage) ==
  LET Answer(status, message) ==
        Reply("addBaggage", customerId, flightNumber, Absent, Absent, 0, status, message)
      Fail(status, message) ==
        /\ response' = Answer(status, message)
        /\ UNCHANGED <<flights, customers>>
      \* the forEach keeps the last booking, string or object, of the flight
      Booked(b) == b.flightNumber = flightNumber
      bookingIndex == FindLastIndex(customers[customerId].bookings, Booked)
      found == customers[customerId].bookings[bookingIndex]
  IN
  IF customerId \notin DOMAIN customers THEN Fail(404, CustomerNotFound)
  ELSE IF FlightIndex(flights, flightNumber) = 0 THEN Fail(404, FlightNotFound)
  ELSE IF bookingIndex = 0 THEN Fail(400, NotBooked)
  ELSE IF baggage.kind \notin {"array", "object"} THEN Fail(400, InvalidBaggage)
  ELSE /\ StoredRecords + Len(Pushed(baggage)) <= MaxRecords
       /\ customers' = [customers EXCEPT ![customerId].bookings[bookingIndex] =
                          WithBaggage(found, baggage)]
       /\ response' = Answer(200, "Baggage added successfully.")
       /\ UNCHANGED flights

---------------------------------------------------------------------------
(* Cancellation and refund *)

\* calculateRefundAmount, in cents.  No handler ever stores booking.payment, so
\* the first branch (booking.payment.paymentAmount * 0.8) is never taken: the
\* amount is 0.8 x the price of the first flight with the booking's number as
\* flights.json holds it after the seat release, and 0 when there is none.
calculateRefundAmount(booking, fs) ==
  LET flightIndex == FlightIndex(fs, booking.flightNumber) IN
  IF flightIndex # 0 THEN fs[flightIndex].price * 80 ELSE 0

\* step 2 of the cancel handler: which element of customer.bookings the
\* bookingId of the URL selects
MatchesBookingId(booking, bookingId) ==
  \/ booking.kind = "object" /\ booking.bookingId = bookingId
  \/ booking.kind = "object" /\ booking.bookingId = Absent
       /\ booking.flightNumber = bookingId
  \/ booking.kind = "string" /\ booking.flightNumber = bookingId

\* ReleaseSeat looking at booking.seatNumber only, not at booking.seat.seatNumber
ReleaseSeatNumberOnly(fs, booking) ==
  LET seatNumber == booking.seatNumber
      flightIndex == FlightIndex(fs, booking.flightNumber)
      seatIndex == SeatIndex(fs[flightIndex].availableSeats, seatNumber)
  IN
  IF /\ seatNumber # Absent
     /\ flightIndex # 0
     /\ fs[flightIndex].hasSeats
     /\ seatIndex # 0
  THEN SetOccupied(fs, flightIndex, seatIndex, FALSE)
  ELSE fs

\* ReleaseSeat that, not finding the seat in the flight, frees every seat of it
ReleaseSeatOrAll(fs, booking) ==
  LET seatNumber == IF booking.seatNumber # Absent THEN booking.seatNumber
                    ELSE booking.seat
      flightIndex == FlightIndex(fs, booking.flightNumber)
      seatIndex == SeatIndex(fs[flightIndex].availableSeats, seatNumber)
  IN
  IF seatNumber = Absent \/ flightIndex = 0 \/ ~fs[flightIndex].hasSeats THEN fs
  ELSE IF seatIndex # 0 THEN SetOccupied(fs, flightIndex, seatIndex, FALSE)
  ELSE [fs EXCEPT ![flightIndex].availableSeats =
          [j \in 1..Len(@) |-> [@[j] EXCEPT !.isOccupied = FALSE]]]

\* step 3 of the cancel handler: the seat map after the release
ReleaseSeat(fs, booking) ==
  LET seatNumber == IF booking.seatNumber # Absent THEN booking.seatNumber
                    ELSE booking.seat
      flightIndex == FlightIndex(fs, booking.flightNumber)
      seatIndex == SeatIndex(fs[flightIndex].availableSeats, seatNumber)
  IN
  IF /\ seatNumber # Absent
     /\ flightIndex # 0
     /\ fs[flightIndex].hasSeats
     /\ seatIndex # 0
  THEN SetOccupied(fs, flightIndex, seatIndex, FALSE)
  ELSE fs

\* POST /customer/:customerId/booking/:bookingId/cancel
cancelBooking(customerId, bookingId) ==
  LET Answer(status, message) ==
        Reply("cancelBooking", customerId, Absent, Absent, bookingId, 0, status, message)
      Fail(status, message) ==
        /\ response' = Answer(status, message)
        /\ UNCHANGED <<flights, customers>>
      Selected(b) == MatchesBookingId(b, bookingId)
      bookingIndex == FindLastIndex(customers[customerId].bookings, Selected)
      found == customers[customerId].bookings[bookingIndex]
      \* a string booking is replaced by the object { flightNumber }
      bookingToCancel == [found EXCEPT !.kind = "object"]
      released == ReleaseSeat(flights, bookingToCancel)
      refundRecord ==
        [bookingId |-> IF bookingToCancel.bookingId # Absent
                       THEN bookingToCancel.bookingId ELSE bookingId,
         flightNumber |-> bookingToCancel.flightNumber,
         amount |-> calculateRefundAmount(bookingToCancel, released),
         status |-> "Pending"]
  IN
  IF customerId \notin DOMAIN customers THEN Fail(404, CustomerNotFound)
  ELSE IF bookingIndex = 0 THEN Fail(404, BookingNotFound)
  ELSE /\ HasRoom
       /\ flights' = released
       /\ customers' = [customers EXCEPT
            ![customerId].refunds = Append(@, refundRecord),
            ![customerId].bookings[bookingIndex] =
               [bookingToCancel EXCEPT !.status = "Cancelled",
                                       !.cancellationDate = "set"]]
       /\ response' = Answer(200, "Booking cancelled successfully. Refund request submitted.")

---------------------------------------------------------------------------
(* Payment and loyalty *)

Digits == {"0", "1", "2", "3", "4", "5", "6", "7", "8", "9"}

\* /^\d{n}$/.test(text), text a sequence of characters (<<>> when missing)
IsDigits(text, n) == Len(text) = n /\ \A i \in 1..n : text[i] \in Digits

\* Math.floor(paymentAmount * pointsPerDollar), the rate held in tenths
PointsEarned(paymentAmount, pointsPerDollar) == (paymentAmount * pointsPerDollar) \div 10

\* AwardLoyalty with the points computed at the rate of the tier the payment
\* reaches instead of the rate held before it
AwardLoyaltyAtNewRate(customer, paymentAmount) ==
  LET spent == customer.totalSpent + paymentAmount
      upgraded ==
        IF spent >= 2000 /\ customer.level # "Platinum"
        THEN [customer EXCEPT !.level = "Platinum", !.pointsPerDollar = 30]
        ELSE IF spent >= 1500 /\ customer.level # "Gold" /\ customer.level # "Platinum"
        THEN [customer EXCEPT !.level = "Gold", !.pointsPerDollar = 25]
        ELSE IF spent >= 1000 /\ customer.level = "Basic"
        THEN [customer EXCEPT !.level = "Silver", !.pointsPerDollar = 20]
        ELSE customer
  IN [upgraded EXCEPT
        !.loyaltyPoints = @ + PointsEarned(paymentAmount, upgraded.pointsPerDollar),
        !.totalSpent = spent]

\* AwardLoyalty with the Gold branch not testing for Platinum
AwardLoyaltyGoldUnchecked(customer, paymentAmount) ==
  LET earned == PointsEarned(paymentAmount, customer.pointsPerDollar)
      spent == customer.totalSpent + paymentAmount
      awarded == [customer EXCEPT !.loyaltyPoints = @ + earned, !.totalSpent = spent]
  IN
  IF spent >= 2000 /\ customer.level # "Platinum"
  THEN [awarded EXCEPT !.level = "Platinum", !.pointsPerDollar = 30]
  ELSE IF spent >= 1500 /\ customer.level # "Gold"
  THEN [awarded EXCEPT !.level = "Gold", !.pointsPerDollar = 25]
  ELSE IF spent >= 1000 /\ customer.level = "Basic"
  THEN [awarded EXCEPT !.level = "Silver", !.pointsPerDollar = 20]
  ELSE awarded

\* step 9 of the payment handler: the customer record after the loyalty award
AwardLoyalty(customer, paymentAmount) ==
  LET earned == PointsEarned(paymentAmount, customer.pointsPerDollar)
      spent == customer.totalSpent + paymentAmount
      awarded == [customer EXCEPT !.loyaltyPoints = @ + earned, !.totalSpent = spent]
  IN
  IF spent >= 2000 /\ customer.level # "Platinum"
  THEN [awarded EXCEPT !.level = "Platinum", !.pointsPerDollar = 30]
  ELSE IF spent >= 1500 /\ customer.level # "Gold" /\ customer.level # "Platinum"
  THEN [awarded EXCEPT !.level = "Gold", !.pointsPerDollar = 25]
  ELSE IF spent >= 1000 /\ customer.level = "Basic"
  THEN [awarded EXCEPT !.level = "Silver", !.pointsPerDollar = 20]
  ELSE awarded

\* AmountMatches accepting an overpayment
AmountCovers(paymentAmount, price) == paymentAmount >= price

\* step 4 of the payment handler: paymentAmount !== flight.price is false
AmountMatches(paymentAmount, price) == paymentAmount = price

\* RecordPayment keeping only the new payment: the list a handler would save
\* had it not read the payments stored before
RecordPaymentOverwriting(customer, flightNumber, paymentAmount) ==
  [customer EXCEPT !.payments =
     <<[flightNumber |-> flightNumber, paymentAmount |-> paymentAmount]>>]

\* step 8 of the payment handler: customer.payments.push(paymentDetails)
RecordPayment(customer, flightNumber, paymentAmount) ==
  [customer EXCEPT !.payments =
     Append(@, [flightNumber |-> flightNumber, paymentAmount |-> paymentAmount])]

\* POST /customer/:customerId/payment
payment(customerId, flightNumber, paymentAmount, creditCardNumber, cvv) ==
  LET Answer(status, message) ==
        Reply("payment", customerId, flightNumber, Absent, Absent, paymentAmount,
              status, message)
      Fail(status, message) ==
        /\ response' = Answer(status, message)
        /\ UNCHANGED <<flights, customers>>
      flightIndex == FlightIndex(flights, flightNumber)
      customer == customers[customerId]
      paid == RecordPayment(customer, flightNumber, paymentAmount)
  IN
  IF customerId \notin DOMAIN customers THEN Fail(404, CustomerNotFound)
  ELSE IF flightIndex = 0 THEN Fail(404, FlightNotFound)
  \* customer.bookings.includes(flightNumber): only a string element is equal
  ELSE IF ~\E i \in 1..Len(customer.bookings) :
             /\ customer.bookings[i].kind = "string"
             /\ customer.bookings[i].flightNumber = flightNumber
       THEN Fail(400, NotBooked)
  ELSE IF ~AmountMatches(paymentAmount, flights[flightIndex].price)
       THEN Fail(400, AmountMismatch)
  ELSE IF ~IsDigits(creditCardNumber, 12) THEN Fail(400, InvalidCardNumber)
  ELSE IF ~IsDigits(cvv, 3) THEN Fail(400, InvalidCvv)
  ELSE /\ HasRoom
       /\ customers' = [customers EXCEPT ![customerId] =
            IF customer.enrolled THEN AwardLoyalty(paid, paymentAmount) ELSE paid]
       /\ response' = Answer(200, "Payment successful.")
       /\ UNCHANGED flights

\* joinLoyaltyProgram without the check for an existing loyaltyProgram
joinLoyaltyProgramAgain(customerId) ==
  IF customerId \notin DOMAIN customers
  THEN /\ response' = Reply("joinLoyaltyProgram", customerId, Absent, Absent, Absent, 0,
                            404, CustomerNotFound)
       /\ UNCHANGED <<flights, customers>>
  ELSE /\ customers' = [customers EXCEPT ![customerId].enrolled = TRUE,
                                         ![customerId].level = "Basic",
                                         ![customerId].pointsPerDollar = 10]
       /\ response' = Reply("joinLoyaltyProgram", customerId, Absent, Absent, Absent, 0,
                            200, "Successfully joined the loyalty program.")
       /\ UNCHANGED flights

\* POST /customer/:customerId/joinLoyaltyProgram
joinLoyaltyProgram(customerId) ==
  LET Answer(status, message) ==
        Reply("joinLoyaltyProgram", customerId, Absent, Absent, Absent, 0, status, message)
      Fail(status, message) ==
        /\ response' = Answer(status, message)
        /\ UNCHANGED <<flights, customers>>
  IN
  IF customerId \notin DOMAIN customers THEN Fail(404, CustomerNotFound)
  ELSE IF customers[customerId].enrolled THEN Fail(400, AlreadyEnrolled)
  ELSE /\ customers' = [customers EXCEPT ![customerId].enrolled = TRUE,
                                         ![customerId].level = "Basic",
                                         ![customerId].pointsPerDollar = 10]
       /\ response' = Answer(200, "Successfully joined the loyalty program.")
       /\ UNCHANGED flights

---------------------------------------------------------------------------
(* Redemption *)

\* calculateRewardValue with the divisor of the flight credit in every branch
calculateRewardValuePerHundred(rewardType, points) ==
  LET lower == ToLowerCase(rewardType) IN
  CASE lower = "freeflight" -> [type |-> "Flight Credit", value |-> points \div 100]
    [] lower = "upgrade" -> [type |-> "Cabin Upgrade", value |-> 1]
    [] lower = "lounge" -> [type |-> "Lounge Access", value |-> points \div 100]
    [] lower = "baggage" -> [type |-> "Extra Baggage", value |-> points \div 100]
    [] OTHER -> [type |-> Absent, value |-> 0]

\* calculateRewardValue: [type, value], value the number printed in the
\* reward's value string; type Absent for the null of the default branch
calculateRewardValue(rewardType, points) ==
  LET lower == ToLowerCase(rewardType) IN
  CASE lower = "freeflight" -> [type |-> "Flight Credit", value |-> points \div 100]
    [] lower = "upgrade" -> [type |-> "Cabin Upgrade", value |-> 1]
    [] lower = "lounge" -> [type |-> "Lounge Access", value |-> points \div 500]
    [] lower = "baggage" -> [type |-> "Extra Baggage", value |-> points \div 200]
    [] OTHER -> [type |-> Absent, value |-> 0]

\* redeemPoints deducting only the points the reward value uses up: whole
\* hundreds
redeemPointsInHundreds(customerId, pointsToRedeem, rewardType) ==
  LET Answer(status, message) ==
        Reply("redeemPoints", customerId, Absent, Absent, Absent, pointsToRedeem,
              status, message)
      Fail(status, message) ==
        /\ response' = Answer(status, message)
        /\ UNCHANGED <<flights, customers>>
      customer == customers[customerId]
      rewardValue == calculateRewardValue(rewardType, pointsToRedeem)
  IN
  IF pointsToRedeem = 0 \/ rewardType = Absent THEN Fail(400, MissingFields)
  ELSE IF pointsToRedeem <= 0 THEN Fail(400, NotPositive)
  ELSE IF customerId \notin DOMAIN customers THEN Fail(404, CustomerNotFound)
  ELSE IF customer.loyaltyPoints = 0 \/ customer.loyaltyPoints < pointsToRedeem
       THEN Fail(400, InsufficientPoints)
  ELSE IF rewardValue.type = Absent THEN Fail(400, InvalidRewardType)
  ELSE /\ HasRoom
       /\ customers' = [customers EXCEPT
            ![customerId].redemptions =
               Append(@, [pointsRedeemed |-> pointsToRedeem, rewardType |-> rewardType,
                          rewardValue |-> rewardValue, status |-> "Processed"]),
            ![customerId].loyaltyPoints = @ - 100 * (pointsToRedeem \div 100)]
       /\ response' = Answer(200, "Points redeemed successfully.")
       /\ UNCHANGED flights

\* POST /customer/:customerId/redeemPoints.  pointsToRedeem = 0 and
\* rewardType = Absent stand for a missing field.
redeemPoints(customerId, pointsToRedeem, rewardType) ==
  LET Answer(status, message) ==
        Reply("redeemPoints", customerId, Absent, Absent, Absent, pointsToRedeem,
              status, message)
      Fail(status, message) ==
        /\ response' = Answer(status, message)
        /\ UNCHANGED <<flights, customers>>
      customer == customers[customerId]
      rewardValue == calculateRewardValue(rewardType, pointsToRedeem)
  IN
  IF pointsToRedeem = 0 \/ rewardType = Absent THEN Fail(400, MissingFields)
  ELSE IF pointsToRedeem <= 0 THEN Fail(400, NotPositive)
  ELSE IF customerId \notin DOMAIN customers THEN Fail(404, CustomerNotFound)
  ELSE IF customer.loyaltyPoints = 0 \/ customer.loyaltyPoints < pointsToRedeem
       THEN Fail(400, InsufficientPoints)
  ELSE IF rewardValue.type = Absent THEN Fail(400, InvalidRewardType)
  ELSE /\ HasRoom
       /\ customers' = [customers EXCEPT
            ![customerId].redemptions =
               Append(@, [pointsRedeemed |-> pointsToRedeem, rewardType |-> rewardType,
                          rewardValue |-> rewardValue, status |-> "Processed"]),
            ![customerId].loyaltyPoints = @ - pointsToRedeem]
       /\ response' = Answer(200, "Points redeemed successfully.")
       /\ UNCHANGED flights

---------------------------------------------------------------------------
(* Requests *)

CustomerIds == Customers \cup {UnknownCustomer}
SeatNumbers == {"1A", "1B"}
BookingIds == {"BK1"}

Seat(seatNumber, isOccupied) == [seatNumber |-> seatNumber, isOccupied |-> isOccupied]

\* availableSeats arrays of the flight requests; isOccupied is "true", "false"
\* or "unset" (no boolean given)
TwoFreeSeats == <<Seat("1A", "false"), Seat("1B", "unset")>>
OneTakenSeat == <<Seat("1A", "true")>>
RepeatedSeat == <<Seat("1A", "false"), Seat("1A", "false")>>
RepeatedSeatTaken == <<Seat("1A", "false"), Seat("1A", "true")>>

EmptyPatch ==
  [hasNewFlightNumber |-> FALSE, newFlightNumber |-> Absent,
   hasDepartureTime |-> FALSE, departureTime |-> 0,
   hasArrivalTime |-> FALSE, arrivalTime |-> 0,
   hasOrigin |-> FALSE, origin |-> Absent,
   hasDestination |-> FALSE, destination |-> Absent,
   hasPrice |-> FALSE, price |-> 0,
   hasSeats |-> FALSE, availableSeats |-> <<>>]

SeatsPatch(seats) == [EmptyPatch EXCEPT !.hasSeats = TRUE, !.availableSeats = seats]
PricePatch(price) == [EmptyPatch EXCEPT !.hasPrice = TRUE, !.price = price]
RenamePatch(newFlightNumber) ==
  [EmptyPatch EXCEPT !.hasNewFlightNumber = TRUE, !.newFlightNumber = newFlightNumber]
DeparturePatch(departureTime) ==
  [EmptyPatch EXCEPT !.hasDepartureTime = TRUE, !.departureTime = departureTime]
TimesPatch(departureTime, arrivalTime) ==
  [EmptyPatch EXCEPT !.hasDepartureTime = TRUE, !.departureTime = departureTime,
                     !.hasArrivalTime = TRUE, !.arrivalTime = arrivalTime]
OriginPatch(origin) == [EmptyPatch EXCEPT !.hasOrigin = TRUE, !.origin = origin]

---------------------------------------------------------------------------
(* Seats and bookings: one flight number, two seats, two customers *)

AddFlightRequest ==
  \E hasSeats \in BOOLEAN, seats \in {TwoFreeSeats, OneTakenSeat, RepeatedSeat},
     times \in {<<1, 2>>, <<2, 1>>} :
    addFlight("F1", times[1], times[2], "Paris", "Rome", 500, hasSeats, seats)

UpdateFlightRequest ==
  \E patch \in {SeatsPatch(TwoFreeSeats), SeatsPatch(RepeatedSeat), PricePatch(500)} :
    updateFlight("F1", patch)

DeleteFlightRequest == deleteFlight("F1")

BookSeatRequest ==
  \E customerId \in CustomerIds, seatNumber \in SeatNumbers :
    bookSeat(customerId, "F1", seatNumber)

BookFlightRequest ==
  \E customerId \in CustomerIds, seatNumber \in SeatNumbers \cup {Absent},
     bookingId \in BookingIds :
    bookFlight(customerId, "F1", seatNumber, bookingId)

CancelRequest ==
  \E customerId \in CustomerIds, bookingId \in BookingIds \cup {"F1"} :
    cancelBooking(customerId, bookingId)

Next ==
  \/ AddFlightRequest
  \/ UpdateFlightRequest
  \/ DeleteFlightRequest
  \/ BookSeatRequest
  \/ BookFlightRequest
  \/ CancelRequest

Spec == Init /\ [][Next]_vars

---------------------------------------------------------------------------
(* Flight inventory: two flight numbers, one of them also written with a
   leading blank; no customer request *)

InventoryPatches ==
  {RenamePatch("F2"), RenamePatch(" F1"), DeparturePatch(3), TimesPatch(2, 1),
   OriginPatch("PARIS "), PricePatch(700), SeatsPatch(OneTakenSeat),
   SeatsPatch(RepeatedSeatTaken)}

AddInventoryFlight ==
  /\ Len(flights) < MaxFlights
  /\ \E flightNumber \in {"F1", " F1", "F2"}, times \in {<<1, 2>>, <<2, 2>>},
        origin \in {" Paris", Absent}, seats \in {TwoFreeSeats, RepeatedSeatTaken} :
       addFlight(flightNumber, times[1], times[2], origin, "Rome", 500, TRUE, seats)

UpdateInventoryFlight ==
  \E flightNumber \in {"F1", "F2"}, patch \in InventoryPatches :
    updateFlight(flightNumber, patch)

DeleteInventoryFlight ==
  \E flightNumber \in {"F1", "F2"} : deleteFlight(flightNumber)

NextInventory ==
  \/ AddInventoryFlight
  \/ UpdateInventoryFlight
  \/ DeleteInventoryFlight

SpecInventory == Init /\ [][NextInventory]_vars

---------------------------------------------------------------------------
(* Reservation without cancellation: the seat requests and the two flight
   requests that write a seat map *)

NextReserve ==
  \/ AddFlightRequest
  \/ UpdateFlightRequest
  \/ BookSeatRequest
  \/ BookFlightRequest

SpecReserve == Init /\ [][NextReserve]_vars

---------------------------------------------------------------------------
(* Concurrent reservations.  A handler is synchronous from its loadJSON
   (readFileSync) to its last saveJSON (writeFileSync) and the server is one
   Node process, so requests that arrive together are handled one after the
   other, in either order: each is one step, and the order is the choice of
   the step.  Every seat starts free, and no request of this specification
   frees a seat or replaces a seat map. *)

AddFreeSeatsRequest ==
  \E seats \in {TwoFreeSeats, RepeatedSeat} : addFlight("F1", 1, 2, "Paris", "Rome", 500, TRUE, seats)

NextRace ==
  \/ AddFreeSeatsRequest
  \/ BookSeatRequest
  \/ BookFlightRequest

SpecRace == Init /\ [][NextRace]_vars

---------------------------------------------------------------------------
(* Reservations on a disk that can refuse a write: the requests of the
   specification above, and the two reservation handlers ending in an
   exception of saveJSON *)

Files == {"customers.json", "flights.json"}

BookSeatSaveFails ==
  \E customerId \in Customers, seatNumber \in SeatNumbers, failing \in Files :
    bookSeatSaveFails(customerId, "F1", seatNumber, failing)

BookFlightSaveFails ==
  \E customerId \in Customers, seatNumber \in SeatNumbers \cup {Absent},
     bookingId \in BookingIds, failing \in Files :
    bookFlightSaveFails(customerId, "F1", seatNumber, bookingId, failing)

NextFault ==
  \/ AddFreeSeatsRequest
  \/ BookSeatRequest
  \/ BookFlightRequest
  \/ BookSeatSaveFails
  \/ BookFlightSaveFails

SpecFault == Init /\ [][NextFault]_vars

---------------------------------------------------------------------------
(* Payment and loyalty: customer c1 and one flight number.  The prices reach
   every tier (501 + 501 Silver, 1500 Gold at once, 1500 + 501 Platinum);
   501 x 2.5 is no whole number; -500 is a price below zero (POST /flights
   and PUT /flights store parseFloat(price) unchecked). *)

Prices == {501, 1500, -500}

ValidCard == <<"4", "0", "0", "0", "1", "2", "3", "4", "5", "6", "7", "8">>
ShortCard == <<"4", "0", "0", "0">>
ValidCvv == <<"1", "2", "3">>
LetterCvv == <<"1", "2", "x">>

AddPricedFlight ==
  \E price \in Prices : addFlight("F1", 1, 2, "Paris", "Rome", price, TRUE, <<Seat("1A", "false")>>)

ChangePrice ==
  \E price \in Prices : updateFlight("F1", PricePatch(price))

BookForPayment ==
  \/ bookFlightLegacy("c1", "F1")
  \/ bookFlight("c1", "F1", Absent, "BK1")
  \/ bookSeat("c1", "F1", "1A")

PaymentRequest ==
  \E customerId \in {"c1", UnknownCustomer}, paymentAmount \in Prices,
     card \in {<<ValidCard, ValidCvv>>, <<ShortCard, ValidCvv>>, <<ValidCard, LetterCvv>>} :
    payment(customerId, "F1", paymentAmount, card[1], card[2])

JoinRequest ==
  \E customerId \in {"c1", UnknownCustomer} : joinLoyaltyProgram(customerId)

RedeemRequest ==
  \E pointsToRedeem \in {0, 500}, rewardType \in {"freeFlight", "cash"} :
    redeemPoints("c1", pointsToRedeem, rewardType)

CancelPaidRequest ==
  \E bookingId \in {"BK1", "F1"} : cancelBooking("c1", bookingId)

NextLoyalty ==
  \/ AddPricedFlight
  \/ ChangePrice
  \/ BookForPayment
  \/ PaymentRequest
  \/ JoinRequest
  \/ RedeemRequest
  \/ CancelPaidRequest

SpecLoyalty == Init /\ [][NextLoyalty]_vars

---------------------------------------------------------------------------
(* The whole engine: every operation, on customer c1 and one flight number
   at two prices *)

EnginePrices == {501, 1500}

AddEngineFlight ==
  \E price \in EnginePrices : addFlight("F1", 1, 2, "Paris", "Rome", price, TRUE, <<Seat("1A", "false")>>)

ChangeEnginePrice ==
  \E price \in EnginePrices : updateFlight("F1", PricePatch(price))

EnginePayment ==
  \E paymentAmount \in EnginePrices, creditCardNumber \in {ValidCard, ShortCard} :
    payment("c1", "F1", paymentAmount, creditCardNumber, ValidCvv)

ArrayOfTwo == [kind |-> "array", items |-> <<"bag1", "bag2">>]
SingleObject == [kind |-> "object", items |-> <<"bag3">>]
NotBaggage == [kind |-> "string", items |-> <<>>]

AddBaggageRequest ==
  \E customerId \in {"c1", UnknownCustomer},
     baggage \in {ArrayOfTwo, SingleObject, NotBaggage} :
    addBaggage(customerId, "F1", baggage)

NextEngine ==
  \/ AddEngineFlight
  \/ ChangeEnginePrice
  \/ DeleteFlightRequest
  \/ BookForPayment
  \/ AddBaggageRequest
  \/ EnginePayment
  \/ JoinRequest
  \/ RedeemRequest
  \/ CancelPaidRequest

SpecEngine == Init /\ [][NextEngine]_vars

---------------------------------------------------------------------------
(* Concurrent payments of an enrolled customer: c1 books (through the older
   server, whose bookings the payment handler accepts), joins the loyalty
   program, and only then sends pay requests.  As the handlers are
   synchronous, pay requests that arrive together are handled one after the
   other, in either order. *)

BookLegacyRequest == bookFlightLegacy("c1", "F1")

PayWhenEnrolled ==
  /\ customers["c1"].enrolled
  /\ \E paymentAmount \in Prices : payment("c1", "F1", paymentAmount, ValidCard, ValidCvv)

NextSpend ==
  \/ AddPricedFlight
  \/ ChangePrice
  \/ BookLegacyRequest
  \/ JoinRequest
  \/ PayWhenEnrolled

SpecSpend == Init /\ [][NextSpend]_vars

---------------------------------------------------------------------------
(* Redemptions: c1 books flight F1, joins the loyalty program, pays (an
   active booking can be paid more than once) and redeems points for each
   reward type, with amounts below, at and above the balance. *)

RedeemPrices == {501, 5001}

\* pointsToRedeem of the requests (0: the field is missing) and their
\* rewardType (Absent: the field is missing)
RedeemPoints == {0, -1, 150, 500, 5000}
RewardTypes == {"freeFlight", "upgrade", "Lounge", "baggage", "cash", Absent}

AddRedeemFlight ==
  \E price \in RedeemPrices :
    addFlight("F1", 1, 2, "Paris", "Rome", price, TRUE, <<Seat("1A", "false")>>)

RedeemPayment ==
  \E paymentAmount \in RedeemPrices : payment("c1", "F1", paymentAmount, ValidCard, ValidCvv)

RedeemRewardRequest ==
  \E pointsToRedeem \in RedeemPoints, rewardType \in RewardTypes :
    redeemPoints("c1", pointsToRedeem, rewardType)

NextRedeem ==
  \/ AddRedeemFlight
  \/ BookLegacyRequest
  \/ JoinRequest
  \/ RedeemPayment
  \/ RedeemRewardRequest

SpecRedeem == Init /\ [][NextRedeem]_vars

---------------------------------------------------------------------------
(* Customers among themselves: one flight whose seat map no administrator
   touches after creating it, and the reservation and cancel requests of
   both customers. *)

NextCustomers ==
  \/ AddFreeSeatsRequest
  \/ BookSeatRequest
  \/ BookFlightRequest
  \/ CancelRequest

SpecCustomers == Init /\ [][NextCustomers]_vars

---------------------------------------------------------------------------
(* The Flight class.  A Flight object is held as the one element of
   `flights`; here `response` is the caller's record of the calls it has
   made on the object: the last call and the seats passed to addSeat so far. *)

\* new Seat(seatNumber, seatClass, isOccupied)
ClassSeat(seatNumber, seatClass, isOccupied) ==
  [seatNumber |-> seatNumber, class |-> seatClass, isOccupied |-> isOccupied]

\* new Flight(...): the fields of the constructor and no seat
Flight(flightNumber, departureTime, arrivalTime, origin, destination, price) ==
  [flightNumber |-> flightNumber, departureTime |-> departureTime,
   arrivalTime |-> arrivalTime, origin |-> origin, destination |-> destination,
   price |-> price, availableSeats |-> <<>>]

\* addSeat that leaves out a seat whose number the flight already holds
addSeatOnce(seat) ==
  /\ Len(response.passed) < MaxSeats
  /\ flights' = [flights EXCEPT ![1].availableSeats =
                   IF SeatIndex(@, seat.seatNumber) # 0 THEN @ ELSE Append(@, seat)]
  /\ response' = [op |-> "addSeat", passed |-> Append(response.passed, seat)]
  /\ UNCHANGED customers

\* Flight.addSeat(seat): this.availableSeats.push(seat)
addSeat(seat) ==
  /\ Len(response.passed) < MaxSeats
  /\ flights' = [flights EXCEPT ![1].availableSeats = Append(@, seat)]
  /\ response' = [op |-> "addSeat", passed |-> Append(response.passed, seat)]
  /\ UNCHANGED customers

\* the seats the caller passes: the same seat may be passed again
ClassSeats ==
  {ClassSeat("1A", "Economy", FALSE), ClassSeat("1A", "Business", TRUE),
   ClassSeat("1B", "Economy", FALSE), ClassSeat("2A", "First", TRUE)}

InitFlightClass ==
  /\ flights = <<Flight("F1", 1, 2, "Paris", "Rome", 500)>>
  /\ customers = [c \in Customers |-> NewCustomer]
  /\ response = [op |-> "new Flight", passed |-> <<>>]

AddSeatCall == \E seat \in ClassSeats : addSeat(seat)

NextFlightClass == AddSeatCall

SpecFlightClass == InitFlightClass /\ [][NextFlightClass]_vars

---------------------------------------------------------------------------
(* Properties: vocabulary *)

Active(booking) == booking.status # "Cancelled"

\* the seat a booking references, Absent if none
SeatOf(booking) ==
  IF booking.seatNumber # Absent THEN booking.seatNumber
  ELSE IF booking.seat \notin {Absent, Unassigned} THEN booking.seat
  ELSE Absent

\* the active bookings, as <<customer, index>>, that reference a seat
Holders(flightNumber, seatNumber) ==
  UNION {{<<c, i>> : i \in {j \in 1..Len(customers[c].bookings) :
                             LET b == customers[c].bookings[j] IN
                               /\ Active(b)
                               /\ b.flightNumber = flightNumber
                               /\ SeatOf(b) = seatNumber}} : c \in Customers}

\* the active bookings of a customer on a flight number
ActiveBookings(customer, flightNumber) ==
  {i \in 1..Len(customer.bookings) :
     Active(customer.bookings[i]) /\ customer.bookings[i].flightNumber = flightNumber}

SeatIsOccupied(fs, flightNumber, seatNumber) ==
  LET flightIndex == FlightIndex(fs, flightNumber) IN
  /\ flightIndex # 0
  /\ fs[flightIndex].hasSeats
  /\ LET seatIndex == SeatIndex(fs[flightIndex].availableSeats, seatNumber) IN
       seatIndex # 0 /\ fs[flightIndex].availableSeats[seatIndex].isOccupied

StoredFlightNumbers == {flights[i].flightNumber : i \in 1..Len(flights)}

---------------------------------------------------------------------------
(* Seats and bookings *)

\* C1: no seat (flightNumber, seatNumber) is referenced by two or more active
\* bookings, of the same customer or of different customers.
SeatsNeverDoubleAssigned ==
  \A flightNumber \in {"F1"}, seatNumber \in SeatNumbers :
    Cardinality(Holders(flightNumber, seatNumber)) <= 1

\* C2: for every stored flight and every seat of it, the seat is occupied if
\* and only if exactly one active booking references the flight and the seat.
OccupiedIffOneActiveBooking ==
  \A i \in 1..Len(flights) :
    \A j \in 1..Len(flights[i].availableSeats) :
      LET seat == flights[i].availableSeats[j] IN
        seat.isOccupied
          <=> Cardinality(Holders(flights[i].flightNumber, seat.seatNumber)) = 1

\* C3: each customer holds at most one active booking per flight number,
\* whichever of bookFlight and bookSeat created the bookings.
OneActiveBookingPerFlight ==
  \A c \in Customers :
    Cardinality(ActiveBookings(customers[c], "F1")) <= 1

\* C4: bookFlight naming a seat that is occupied on that flight (by a known
\* customer who has no booking for the flight yet) fails with SeatOccupied,
\* adds no booking and leaves the seat map as it was.
OccupiedSeatRejectsBookFlight ==
  [][(/\ response'.op = "bookFlight"
      /\ response'.customerId \in DOMAIN customers
      /\ response'.seatNumber # Absent
      /\ SeatIsOccupied(flights, response'.flightNumber, response'.seatNumber)
      /\ \A i \in 1..Len(customers[response'.customerId].bookings) :
           customers[response'.customerId].bookings[i].flightNumber
             # response'.flightNumber)
     => (/\ response'.message = SeatOccupied
         /\ customers' = customers
         /\ flights' = flights)]_vars

\* an active bookSeat booking of some customer holds the seat
HeldBySeatBooking(flightNumber, seatNumber) ==
  \E c \in Customers : \E i \in 1..Len(customers[c].bookings) :
    LET b == customers[c].bookings[i] IN
      /\ Active(b)
      /\ b.flightNumber = flightNumber
      /\ b.seatNumber = seatNumber

\* C5: bookSeat succeeds only on an unoccupied seat, then marks it occupied and
\* adds exactly one booking to the customer; with no cancellation in between
\* (no behaviour of SpecReserve cancels), a bookSeat for a flight and seat that
\* an earlier bookSeat booked fails and changes neither store.
BookSeatReservesOnce ==
  [][(response'.op = "bookSeat" /\ response'.customerId \in DOMAIN customers) =>
       LET c == response'.customerId
           flightNumber == response'.flightNumber
           seatNumber == response'.seatNumber
       IN
       /\ response'.status = 200 =>
            /\ ~SeatIsOccupied(flights, flightNumber, seatNumber)
            /\ SeatIsOccupied(flights', flightNumber, seatNumber)
            /\ customers' = [customers EXCEPT ![c].bookings =
                               Append(@, SeatBooking(flightNumber, seatNumber))]
       /\ HeldBySeatBooking(flightNumber, seatNumber) =>
            /\ response'.status # 200
            /\ response'.message \in {SeatOccupied, DuplicateSeatBooking}
            /\ customers' = customers
            /\ flights' = flights]_vars

---------------------------------------------------------------------------
(* Payment and loyalty *)

PriceOf(fs, flightNumber) == fs[FlightIndex(fs, flightNumber)].price

\* C6: for an existing customer and flight, pay fails with NotBooked exactly
\* when the customer has no active booking for that flight number.
NotBookedIffNoActiveBooking ==
  (/\ response.op = "payment"
   /\ response.customerId \in DOMAIN customers
   /\ response.flightNumber \in StoredFlightNumbers)
  => (response.message = NotBooked
        <=> ActiveBookings(customers[response.customerId], response.flightNumber) = {})

\* C7: a successful pay of amount a by an enrolled customer adds exactly a to
\* totalSpent and exactly floor(a x r) to loyaltyPoints, r the rate held before
\* the payment; for a customer who is not enrolled it changes neither.
PaymentAwardsSpendAndPoints ==
  [][(response'.op = "payment" /\ response'.status = 200) =>
       LET before == customers[response'.customerId]
           after == customers'[response'.customerId]
           a == response'.amount
           gained == after.loyaltyPoints - before.loyaltyPoints
       IN
       IF before.enrolled
       THEN /\ after.totalSpent = before.totalSpent + a
            \* gained = floor(a x r), r = pointsPerDollar / 10
            /\ 10 * gained <= a * before.pointsPerDollar
            /\ a * before.pointsPerDollar < 10 * (gained + 1)
       ELSE /\ after.totalSpent = before.totalSpent
            /\ gained = 0]_vars

\* a payment of 501 at the Gold rate 2.5 (1252 points for 1252.5) that follows
\* a payment of 1500 at the Basic rate, and lifts the customer to Platinum
PaidAtGoldRate ==
  /\ response.op = "payment" /\ response.status = 200 /\ response.amount = 501
  /\ customers["c1"].enrolled
  /\ customers["c1"].totalSpent = 2001
  /\ customers["c1"].loyaltyPoints = 2752
  /\ customers["c1"].level = "Platinum"

TierRank(level) ==
  CASE level = "Basic" -> 1
    [] level = "Silver" -> 2
    [] level = "Gold" -> 3
    [] level = "Platinum" -> 4
    [] OTHER -> 0

\* C8: a customer's tier never decreases in the order Basic < Silver < Gold <
\* Platinum, whatever request is served, and a membership is never lost.
TierNeverDecreases ==
  [][\A c \in Customers :
       customers[c].enrolled =>
         /\ customers'[c].enrolled
         /\ TierRank(customers'[c].level) >= TierRank(customers[c].level)]_vars

\* a Platinum customer has paid once more
PlatinumPaidAgain ==
  /\ response.op = "payment" /\ response.status = 200
  /\ customers["c1"].level = "Platinum"
  /\ customers["c1"].totalSpent - response.amount >= 2000

TierFor(totalSpent) ==
  IF totalSpent >= 2000 THEN "Platinum"
  ELSE IF totalSpent >= 1500 THEN "Gold"
  ELSE IF totalSpent >= 1000 THEN "Silver"
  ELSE "Basic"

RateOf(level) ==
  CASE level = "Basic" -> 10
    [] level = "Silver" -> 20
    [] level = "Gold" -> 25
    [] level = "Platinum" -> 30

\* C9: for every enrolled customer the tier is the highest tier whose threshold
\* (0, 1000, 1500, 2000) is at most totalSpent, and pointsPerDollar is the rate
\* of that tier (1, 2, 2.5, 3).
TierMatchesTotalSpent ==
  \A c \in Customers :
    customers[c].enrolled =>
      /\ customers[c].level = TierFor(customers[c].totalSpent)
      /\ customers[c].pointsPerDollar = RateOf(TierFor(customers[c].totalSpent))

\* C10: a payment record is stored only by a successful pay and carries the
\* price the flight has at that call; pay with another amount fails, with
\* AmountMismatch once the booking check has passed, and stores nothing.
PaymentsEqualPrice ==
  [][/\ \A c \in Customers :
          customers'[c].payments # customers[c].payments =>
            /\ response'.op = "payment" /\ response'.status = 200
            /\ response'.customerId = c
            /\ response'.flightNumber \in StoredFlightNumbers
            /\ customers'[c].payments =
                 Append(customers[c].payments,
                        [flightNumber |-> response'.flightNumber,
                         paymentAmount |-> PriceOf(flights, response'.flightNumber)])
     /\ (/\ response'.op = "payment"
         /\ response'.customerId \in DOMAIN customers
         /\ response'.flightNumber \in StoredFlightNumbers
         /\ response'.amount # PriceOf(flights, response'.flightNumber))
        => /\ response'.message \in {NotBooked, AmountMismatch}
           /\ customers' = customers]_vars

\* two payments of one customer at two different prices of the flight
PaidAtTwoPrices ==
  /\ response.op = "payment" /\ response.status = 200
  /\ Len(customers["c1"].payments) = 2
  /\ customers["c1"].payments[1].paymentAmount
       # customers["c1"].payments[2].paymentAmount

---------------------------------------------------------------------------
(* Errors, cancellation and refunds *)

SelectedIndex(customer, bookingId) ==
  LET Selected(b) == MatchesBookingId(b, bookingId) IN
    FindLastIndex(customer.bookings, Selected)

\* the amounts, in dollars, of the payments a customer made for a flight number
PaidAmounts(customer, flightNumber) ==
  {customer.payments[i].paymentAmount :
     i \in {j \in 1..Len(customer.payments) :
              customer.payments[j].flightNumber = flightNumber}}

\* C12: a successful cancelBooking appends exactly one refund, Pending, whose
\* amount (in cents) is 80 x a payment the customer made for the booking's
\* flight when there is one, whatever happened to the flight since, and
\* 80 x the current price of the flight otherwise.
RefundIsEightyPercentOfPayment ==
  [][(response'.op = "cancelBooking" /\ response'.status = 200) =>
       LET before == customers[response'.customerId]
           after == customers'[response'.customerId]
           booking == before.bookings[SelectedIndex(before, response'.bookingId)]
           paid == PaidAmounts(before, booking.flightNumber)
           refund == after.refunds[Len(after.refunds)]
       IN
       /\ Len(after.refunds) = Len(before.refunds) + 1
       /\ SubSeq(after.refunds, 1, Len(before.refunds)) = before.refunds
       /\ refund.status = "Pending"
       /\ IF paid # {}
          THEN refund.amount \in {80 * a : a \in paid}
          ELSE booking.flightNumber \in StoredFlightNumbers =>
                 refund.amount = 80 * PriceOf(flights, booking.flightNumber)]_vars

\* C13: after a successful cancelBooking of an active booking, the booking is
\* still in the customer's list, at its place and for its flight, with status
\* Cancelled and a cancellation date, and the seat it reserved, if any, is not
\* occupied.
CancelMarksAndReleases ==
  [][(/\ response'.op = "cancelBooking" /\ response'.status = 200
      /\ Active(customers[response'.customerId].bookings[
            SelectedIndex(customers[response'.customerId], response'.bookingId)]))
     => LET before == customers[response'.customerId]
            after == customers'[response'.customerId]
            i == SelectedIndex(before, response'.bookingId)
        IN
        /\ Len(after.bookings) = Len(before.bookings)
        /\ after.bookings[i].status = "Cancelled"
        /\ after.bookings[i].cancellationDate # Absent
        /\ after.bookings[i].flightNumber = before.bookings[i].flightNumber
        /\ SeatOf(before.bookings[i]) # Absent =>
             ~SeatIsOccupied(flights', before.bookings[i].flightNumber,
                             SeatOf(before.bookings[i]))]_vars

\* customer c1 cancelled, once, the bookFlight booking that held seat 1A, and
\* the seat is in the seat map, free
CancelledSeatIsFree ==
  /\ response.op = "cancelBooking" /\ response.status = 200
  /\ response.customerId = "c1"
  /\ Len(customers["c1"].refunds) = 1
  /\ \E i \in 1..Len(customers["c1"].bookings) :
       /\ customers["c1"].bookings[i].seat = "1A"
       /\ customers["c1"].bookings[i].status = "Cancelled"
  /\ \E i \in 1..Len(flights) : \E j \in 1..Len(flights[i].availableSeats) :
       /\ flights[i].availableSeats[j].seatNumber = "1A"
       /\ ~flights[i].availableSeats[j].isOccupied

\* C14: Cancelled is terminal: a cancelBooking that selects a booking already
\* cancelled takes no effect, it adds no refund and leaves the seat map and
\* the customers as they are; so a booking has at most one refund.
CancelledIsTerminal ==
  [][(/\ response'.op = "cancelBooking"
      /\ response'.customerId \in DOMAIN customers
      /\ SelectedIndex(customers[response'.customerId], response'.bookingId) # 0
      /\ ~Active(customers[response'.customerId].bookings[
             SelectedIndex(customers[response'.customerId], response'.bookingId)]))
     => (customers' = customers /\ flights' = flights)]_vars

\* C15: a seat that stays in the seat map goes from occupied to free only in
\* a successful cancelBooking of an active booking that holds this seat, and
\* no active booking holds the seat afterwards.
SeatFreedOnlyByItsCancel ==
  [][\A seatNumber \in SeatNumbers :
       (/\ SeatIsOccupied(flights, "F1", seatNumber)
        /\ ~SeatIsOccupied(flights', "F1", seatNumber)
        /\ FlightIndex(flights', "F1") # 0
        /\ SeatIndex(flights'[FlightIndex(flights', "F1")].availableSeats, seatNumber) # 0)
       => /\ response'.op = "cancelBooking" /\ response'.status = 200
          /\ LET before == customers[response'.customerId]
                 booking == before.bookings[SelectedIndex(before, response'.bookingId)]
             IN /\ Active(booking)
                /\ booking.flightNumber = "F1"
                /\ SeatOf(booking) = seatNumber
          /\ Holders("F1", seatNumber)' = {}]_vars

\* C16: the duplicate checks count active bookings only: a bookFlight or a
\* bookSeat for flight F by a customer whose bookings for F are all cancelled
\* is not refused as a duplicate.
CancelledBookingAllowsRebooking ==
  [][(/\ response'.op \in {"bookFlight", "bookSeat"}
      /\ response'.customerId \in DOMAIN customers
      /\ response'.flightNumber \in StoredFlightNumbers
      /\ ActiveBookings(customers[response'.customerId], response'.flightNumber) = {}
      /\ \E i \in 1..Len(customers[response'.customerId].bookings) :
           customers[response'.customerId].bookings[i].flightNumber
             = response'.flightNumber)
     => response'.message \notin {DuplicateBooking, DuplicateSeatBooking}]_vars

\* C17: every stored booking carries a bookingId, and no two stored bookings,
\* of one customer or of two, carry the same bookingId.
EveryBookingHasDistinctId ==
  \A c \in Customers : \A i \in 1..Len(customers[c].bookings) :
    /\ customers[c].bookings[i].bookingId # Absent
    /\ \A d \in Customers : \A j \in 1..Len(customers[d].bookings) :
         <<c, i>> # <<d, j>> =>
           customers[c].bookings[i].bookingId # customers[d].bookings[j].bookingId

\* C18: bookings are never deleted: in every step the bookings a customer has
\* stay in the list, in their places and with their flight numbers, so the
\* number of bookings of a customer never decreases.
BookingsAreNeverDeleted ==
  [][\A c \in Customers :
       /\ Len(customers'[c].bookings) >= Len(customers[c].bookings)
       /\ \A i \in 1..Len(customers[c].bookings) :
            customers'[c].bookings[i].flightNumber
              = customers[c].bookings[i].flightNumber]_vars

\* a booking stored as a string was paid, got baggage (which rewrote it as an
\* object) and was cancelled, and is still the booking of flight F1
PaidLoadedCancelledBookingKept ==
  /\ response.op = "cancelBooking" /\ response.status = 200
  /\ Len(customers["c1"].payments) = 1
  /\ Len(customers["c1"].bookings) = 1
  /\ customers["c1"].bookings[1].bookingId = Absent
  /\ customers["c1"].bookings[1].seatNumber = Absent
  /\ Len(customers["c1"].bookings[1].baggage) = 1
  /\ customers["c1"].bookings[1].status = "Cancelled"
  /\ customers["c1"].bookings[1].flightNumber = "F1"

---------------------------------------------------------------------------
(* Concurrent requests *)

\* C19: of two reservation requests (bookSeat, or bookFlight naming a seat) for
\* the same free seat that are handled one right after the other, the second
\* does not succeed and changes nothing: the first one took the seat (it is the
\* seat's only holder when the second is handled).
ConcurrentReservationsExclude ==
  [][(/\ response.op \in {"bookSeat", "bookFlight"}
      /\ response.status \in {200, 201}
      /\ response.seatNumber # Absent
      /\ Cardinality(Holders(response.flightNumber, response.seatNumber)) = 1
      /\ response'.op \in {"bookSeat", "bookFlight"}
      /\ response'.customerId \in DOMAIN customers
      /\ response'.flightNumber = response.flightNumber
      /\ response'.seatNumber = response.seatNumber)
     => (/\ response'.status \notin {200, 201}
         /\ customers' = customers
         /\ flights' = flights)]_vars

RECURSIVE SequentialSpend(_)
\* the loyalty account after the payments of a list are awarded one by one, in
\* the order of the list, to an account as joinLoyaltyProgram opens it
SequentialSpend(payments) ==
  IF payments = <<>>
  THEN [loyaltyPoints |-> 0, totalSpent |-> 0, level |-> "Basic", pointsPerDollar |-> 10]
  ELSE AwardLoyalty(SequentialSpend(SubSeq(payments, 1, Len(payments) - 1)),
                    payments[Len(payments)].paymentAmount)

\* C20: no update of a payment is lost: for a customer who pays as a member,
\* totalSpent, loyaltyPoints, tier and rate are those of executing all the
\* payments of the stored payment list one after the other, however many pay
\* requests were handled and in whichever order.
SpendReflectsEveryPayment ==
  customers["c1"].enrolled =>
    LET account == SequentialSpend(customers["c1"].payments) IN
      /\ customers["c1"].totalSpent = account.totalSpent
      /\ customers["c1"].loyaltyPoints = account.loyaltyPoints
      /\ customers["c1"].level = account.level
      /\ customers["c1"].pointsPerDollar = account.pointsPerDollar

\* two payments of 501 both succeeded: both are in the list, and the customer
\* is Silver, which neither payment reaches alone
TwoPaymentsBothCounted ==
  /\ response.op = "payment" /\ response.status = 200
  /\ Len(customers["c1"].payments) = 2
  /\ customers["c1"].payments[1].paymentAmount = 501
  /\ customers["c1"].payments[2].paymentAmount = 501
  /\ customers["c1"].totalSpent = 1002
  /\ customers["c1"].loyaltyPoints = 1002
  /\ customers["c1"].level = "Silver"

---------------------------------------------------------------------------
(* Persistence failures *)

\* C21: a reservation and its booking are persisted together or not at all:
\* in every persisted state a seat that is occupied has a recorded active
\* booking, and the seat of a recorded active booking is occupied, also after
\* a reservation request that failed in one of its two writes.
ReservationIsOneTransaction ==
  /\ \A seatNumber \in SeatNumbers :
       SeatIsOccupied(flights, "F1", seatNumber) => Holders("F1", seatNumber) # {}
  /\ \A c \in Customers : \A i \in 1..Len(customers[c].bookings) :
       LET b == customers[c].bookings[i] IN
         (Active(b) /\ SeatOf(b) # Absent) =>
           SeatIsOccupied(flights, b.flightNumber, SeatOf(b))

---------------------------------------------------------------------------
(* Flight inventory *)

\* C22: every stored flight departs strictly before it arrives, also after an
\* updateFlight that supplies only one of the two times.
DepartureBeforeArrival ==
  \A i \in 1..Len(flights) : flights[i].departureTime < flights[i].arrivalTime

\* C23: the flight numbers of the stored flights are pairwise distinct, after
\* any sequence of addFlight, updateFlight (renames included) and deleteFlight.
FlightNumbersDistinct ==
  \A i, j \in 1..Len(flights) :
    i # j => flights[i].flightNumber # flights[j].flightNumber

\* a seat list names a seat number twice
Repeats(seats) ==
  \E i, j \in 1..Len(seats) : i < j /\ seats[i].seatNumber = seats[j].seatNumber

\* C24: after every step the seat numbers of each stored flight are pairwise
\* distinct, and an addFlight or updateFlight whose seat list repeats a seat
\* number fails (with DuplicateSeat once the checks before it have passed) and
\* stores nothing.
SeatNumbersStayDistinct ==
  [][/\ \A i \in 1..Len(flights') : ~Repeats(flights'[i].availableSeats)
     /\ (/\ response'.op \in {"addFlight", "updateFlight"}
         /\ response'.message = DuplicateSeat) => flights' = flights
     /\ \A flightNumber \in {"F1", " F1", "F2"}, origin \in {" Paris", Absent},
           times \in {<<1, 2>>, <<2, 2>>}, seats \in {TwoFreeSeats, RepeatedSeatTaken} :
          (/\ Repeats(seats)
           /\ addFlight(flightNumber, times[1], times[2], origin, "Rome", 500, TRUE, seats))
          => /\ response'.message \in {DuplicateFlightNumber, InvalidTimeRange, DuplicateSeat}
             /\ flights' = flights
     /\ \A flightNumber \in {"F1", "F2"}, patch \in InventoryPatches :
          (/\ patch.hasSeats /\ Repeats(patch.availableSeats)
           /\ updateFlight(flightNumber, patch))
          => /\ response'.message \in {FlightNotFound, DuplicateSeat}
             /\ flights' = flights]_vars

\* a seat list that names seat 1A twice, once free and once taken, was refused
\* for a stored flight
RepeatedSeatRefused ==
  /\ response.op = "updateFlight" /\ response.message = DuplicateSeat
  /\ Len(flights) = 2

\* C25: a successful updateFlight changes, in the flight it addresses, only the
\* fields its body carries; the other fields of that flight, every other
\* flight and the customers are as before.
UpdateChangesOnlyPatchedFields ==
  [][\A flightNumber \in {"F1", "F2"}, patch \in InventoryPatches :
       (updateFlight(flightNumber, patch) /\ response'.status = 200) =>
         LET i == FlightIndex(flights, flightNumber)
             old == flights[i]
             new == flights'[i]
         IN /\ Len(flights') = Len(flights)
            /\ \A j \in 1..Len(flights) : j # i => flights'[j] = flights[j]
            /\ customers' = customers
            /\ ~patch.hasNewFlightNumber => new.flightNumber = old.flightNumber
            /\ ~patch.hasDepartureTime => new.departureTime = old.departureTime
            /\ ~patch.hasArrivalTime => new.arrivalTime = old.arrivalTime
            /\ ~patch.hasOrigin => new.origin = old.origin
            /\ ~patch.hasDestination => new.destination = old.destination
            /\ ~patch.hasPrice => new.price = old.price
            /\ ~patch.hasSeats => new.availableSeats = old.availableSeats]_vars

\* an update of the price alone succeeded on one of two stored flights and
\* the seats of the flight are still the ones it had
PriceAloneUpdated ==
  /\ response.op = "updateFlight" /\ response.status = 200
  /\ Len(flights) = 2
  /\ \E i \in 1..Len(flights) :
       /\ flights[i].price = 700
       /\ flights[i].availableSeats = NormalizeSeats(TwoFreeSeats)
       /\ flights[i].origin = "Paris"

\* two places are equal up to letter case and surrounding whitespace
SamePlace(a, b) == ToLowerCase(trim(a)) = ToLowerCase(trim(b))

\* the origin and destination parameters of the searches
OriginQueries == {"PARIS ", " paris", "Paris", "Rome"}
DestinationQueries == {"ROME", "Rome", "Paris"}

\* flight is one of the flights the search lists
Lists(found, flight) == \E k \in 1..Len(found) : found[k] = flight

\* C26: after an addFlight with origin o and destination d succeeds, every
\* search whose origin and destination equal o and d up to letter case and
\* surrounding whitespace lists the flight, and goes on listing every stored
\* flight whose origin and destination it equals in that way.
AddedFlightIsFound ==
  [][/\ \A flightNumber \in {"F1", " F1", "F2"}, times \in {<<1, 2>>, <<2, 2>>},
           seats \in {TwoFreeSeats, RepeatedSeatTaken} :
          (/\ addFlight(flightNumber, times[1], times[2], " Paris", "Rome", 500, TRUE, seats)
           /\ response'.status = 201)
          => \A o \in OriginQueries, d \in DestinationQueries :
               (SamePlace(o, " Paris") /\ SamePlace(d, "Rome")) =>
                 Lists(findFlights(flights', o, d), flights'[Len(flights')])
     /\ \A i \in 1..Len(flights') : \A o \in OriginQueries, d \in DestinationQueries :
          (SamePlace(o, flights'[i].origin) /\ SamePlace(d, flights'[i].destination)) =>
            Lists(findFlights(flights', o, d), flights'[i])]_vars

\* a flight added from " Paris" is listed by the search for "PARIS " to
\* "ROME" and not by the search for flights from Rome
FoundInOtherCase ==
  /\ response.op = "addFlight" /\ response.status = 201
  /\ Len(flights) = 1 /\ flights[1].origin = "Paris"
  /\ findFlights(flights, "PARIS ", "ROME") = flights
  /\ findFlights(flights, "Rome", "") = <<>>

---------------------------------------------------------------------------
(* Loyalty programme *)

\* C27: a successful enrolment is of a customer who was not a member and
\* leaves them at level Basic earning 1 point per dollar with the points they
\* had; enrolling a member fails with AlreadyEnrolled and leaves level, rate,
\* points and total spend as they were.  (pointsPerDollar is in tenths.)
EnrolmentStartsBasicOnce ==
  [][(response'.op = "joinLoyaltyProgram" /\ response'.customerId \in Customers) =>
       LET before == customers[response'.customerId]
           after == customers'[response'.customerId]
       IN /\ flights' = flights
          /\ \A c \in Customers \ {response'.customerId} : customers'[c] = customers[c]
          /\ IF before.enrolled
             THEN /\ response'.status = 400 /\ response'.message = AlreadyEnrolled
                  /\ after.level = before.level
                  /\ after.pointsPerDollar = before.pointsPerDollar
                  /\ after.loyaltyPoints = before.loyaltyPoints
                  /\ after.totalSpent = before.totalSpent
                  /\ after = before
             ELSE /\ response'.status = 200
                  /\ after.enrolled /\ after.level = "Basic"
                  /\ after.pointsPerDollar = 10
                  /\ after.loyaltyPoints = before.loyaltyPoints
                  /\ after.loyaltyPoints = 0 => before.loyaltyPoints = 0]_vars

\* a Gold member holding points asked to enrol again and was refused
GoldMemberRefused ==
  /\ response.op = "joinLoyaltyProgram" /\ response.message = AlreadyEnrolled
  /\ customers["c1"].level = "Gold"
  /\ customers["c1"].loyaltyPoints > 0

---------------------------------------------------------------------------
(* Redemption *)

\* the reward types of the catalogue, in any letter case
IsRewardType(rewardType) ==
  ToLowerCase(rewardType) \in {"freeflight", "upgrade", "lounge", "baggage"}

\* C28: loyaltyPoints is never negative, for any customer, after any step; a
\* redeem of more points than the balance fails with InsufficientPoints and
\* changes nothing, a redeem of points within the balance for a reward type
\* outside the catalogue fails with InvalidRewardType and changes nothing, and
\* a successful redeem of p points lowers the balance by exactly p and adds
\* exactly one redemption record.
PointsNeverNegative ==
  [][/\ \A c \in Customers : customers'[c].loyaltyPoints >= 0
     /\ \A p \in RedeemPoints, rewardType \in RewardTypes \ {Absent} :
          (p > 0 /\ redeemPoints("c1", p, rewardType)) =>
            LET before == customers["c1"]
                after == customers'["c1"]
            IN /\ p > before.loyaltyPoints =>
                    (response'.message = InsufficientPoints /\ customers' = customers)
               /\ (p <= before.loyaltyPoints /\ ~IsRewardType(rewardType)) =>
                    (response'.message = InvalidRewardType /\ customers' = customers)
               /\ response'.status = 200 =>
                    /\ after.loyaltyPoints = before.loyaltyPoints - p
                    /\ Len(after.redemptions) = Len(before.redemptions) + 1
                    /\ after.redemptions[Len(after.redemptions)].pointsRedeemed = p]_vars

\* C29: a successful redemption for an upgrade takes exactly 5000 points
\* from a balance of at least 5000.
UpgradeCostsFiveThousand ==
  [][\A p \in RedeemPoints :
       (redeemPoints("c1", p, "upgrade") /\ response'.status = 200) =>
         /\ customers["c1"].loyaltyPoints >= 5000
         /\ customers'["c1"].loyaltyPoints = customers["c1"].loyaltyPoints - 5000]_vars

\* C30: the flight credit of a successful freeFlight redemption of p points
\* is p / 100 dollars, so 100 times the credit is p.
FlightCreditIsPointsOverHundred ==
  [][\A p \in RedeemPoints :
       (redeemPoints("c1", p, "freeFlight") /\ response'.status = 200) =>
         LET redemptions == customers'["c1"].redemptions
         IN 100 * redemptions[Len(redemptions)].rewardValue.value = p]_vars

\* v is the whole number of times d goes into p
IsFloorOf(v, p, d) == v * d <= p /\ p < (v + 1) * d

\* C31: a successful redemption of p points gives floor(p / 500) days of
\* lounge access for rewardType lounge and floor(p / 200) kg for rewardType
\* baggage; 50000 points for lounge give 100 days.
LoungeDaysAndBaggageKilos ==
  [][/\ calculateRewardValue("Lounge", 50000).value = 100
     /\ \A p \in RedeemPoints :
          LET redemptions == customers'["c1"].redemptions
              reward == redemptions[Len(redemptions)].rewardValue
          IN /\ (redeemPoints("c1", p, "Lounge") /\ response'.status = 200) =>
                  (reward.type = "Lounge Access" /\ IsFloorOf(reward.value, p, 500))
             /\ (redeemPoints("c1", p, "baggage") /\ response'.status = 200) =>
                  (reward.type = "Extra Baggage" /\ IsFloorOf(reward.value, p, 200))]_vars

\* 500 points were redeemed for baggage, giving 2 kg, after a redemption of
\* 500 points for lounge access that gave 1 day
LoungeThenBaggageRedeemed ==
  /\ response.op = "redeemPoints" /\ response.status = 200
  /\ Len(customers["c1"].redemptions) = 2
  /\ customers["c1"].redemptions[1].rewardType = "Lounge"
  /\ customers["c1"].redemptions[1].pointsRedeemed = 500
  /\ customers["c1"].redemptions[1].rewardValue.value = 1
  /\ customers["c1"].redemptions[2].rewardType = "baggage"
  /\ customers["c1"].redemptions[2].pointsRedeemed = 500
  /\ customers["c1"].redemptions[2].rewardValue.value = 2

\* C32: a step that lowers a customer's loyaltyPoints is a successful
\* redeemPoints of that customer; payments (tier upgrades included),
\* bookings, cancellations, baggage and enrolment never lower the balance.
OnlyRedeemLowersPoints ==
  [][\A c \in Customers :
       customers'[c].loyaltyPoints < customers[c].loyaltyPoints =>
         /\ response'.op = "redeemPoints"
         /\ response'.status = 200
         /\ response'.customerId = c]_vars

---------------------------------------------------------------------------
(* Cancellation, baggage and the seat map *)

\* C33: a cancelBooking that selects a booking of a known customer succeeds
\* and leaves the booking Cancelled, whatever the state of the seat map; when
\* the booking has no seat, its flight is gone, the seat is not in the
\* flight's seat map or the seat is already free, the flights are unchanged.
CancelSucceedsWithoutSeat ==
  [][(/\ response'.op = "cancelBooking"
      /\ response'.customerId \in Customers
      /\ SelectedIndex(customers[response'.customerId], response'.bookingId) # 0)
     => LET before == customers[response'.customerId]
            i == SelectedIndex(before, response'.bookingId)
            booking == before.bookings[i]
        IN
        /\ response'.status = 200
        /\ customers'[response'.customerId].bookings[i].status = "Cancelled"
        /\ (\/ SeatOf(booking) = Absent
            \/ ~SeatIsOccupied(flights, booking.flightNumber, SeatOf(booking)))
           => flights' = flights]_vars

\* c1 cancelled an active bookSeat booking of seat 1B after flight F1 had been
\* deleted and added again without seat 1B, whose seat 1A stays occupied
CancelledWithSeatGone ==
  /\ response.op = "cancelBooking" /\ response.status = 200
  /\ response.customerId = "c1"
  /\ Len(customers["c1"].refunds) = 1
  /\ \E i \in 1..Len(customers["c1"].bookings) :
       /\ customers["c1"].bookings[i].seatNumber = "1B"
       /\ customers["c1"].bookings[i].status = "Cancelled"
  /\ Len(flights) = 1
  /\ Len(flights[1].availableSeats) = 1
  /\ flights[1].availableSeats[1].isOccupied

SeatsAreTheSeatsPassed ==
  /\ flights[1].availableSeats = response.passed
  /\ Len(flights[1].availableSeats) = Len(response.passed)

\* seat 1A was passed twice, as two different objects, around seat 1B
SameSeatPassedTwice ==
  /\ response.op = "addSeat"
  /\ Len(flights[1].availableSeats) = 3
  /\ flights[1].availableSeats[1].seatNumber = "1A"
  /\ flights[1].availableSeats[2].seatNumber = "1B"
  /\ flights[1].availableSeats[3] = ClassSeat("1A", "Business", TRUE)

---------------------------------------------------------------------------
(* Bookings across flights and customers *)

\* C36: every active booking names a flight that is stored: deleting or
\* renaming a flight never leaves an active booking without its flight.
ActiveBookingsNameStoredFlights ==
  \A c \in Customers : \A i \in 1..Len(customers[c].bookings) :
    Active(customers[c].bookings[i]) =>
      customers[c].bookings[i].flightNumber \in StoredFlightNumbers

\* the booking ids a cancel request can carry to any effect: the generated
\* ids and the flight numbers
CancelIds == BookingIds \cup {"F1"}

\* C37: a successful cancelBooking changes the one booking its bookingId
\* selects and no other booking of the customer, and after every step each
\* active booking of each customer is the booking some cancelBooking request
\* selects, each of several bookSeat bookings of one flight included.
CancelReachesEveryBooking ==
  [][/\ (/\ response'.op = "cancelBooking" /\ response'.status = 200) =>
          LET before == customers[response'.customerId].bookings
              after == customers'[response'.customerId].bookings
              i == SelectedIndex(customers[response'.customerId], response'.bookingId)
          IN /\ Len(after) = Len(before)
             /\ \A j \in 1..Len(before) : j # i => after[j] = before[j]
     /\ \A c \in Customers : \A i \in 1..Len(customers'[c].bookings) :
          Active(customers'[c].bookings[i]) =>
            \E bookingId \in CancelIds : SelectedIndex(customers'[c], bookingId) = i]_vars

\* the requests a customer sends for themselves
CustomerOperations ==
  {"bookFlight", "bookSeat", "addBaggage", "payment", "cancelBooking",
   "joinLoyaltyProgram", "redeemPoints"}

\* C38: a request of customer A leaves the record of every other customer B
\* as it was, and leaves every seat that an active booking of B holds as
\* occupied or free as it was.
CustomersAreIsolated ==
  [][(response'.op \in CustomerOperations /\ response'.customerId \in Customers) =>
       \A b \in Customers \ {response'.customerId} :
         /\ customers'[b] = customers[b]
         /\ \A i \in 1..Len(customers[b].bookings) :
              LET booking == customers[b].bookings[i] IN
                (Active(booking) /\ SeatOf(booking) # Absent) =>
                  SeatIsOccupied(flights', booking.flightNumber, SeatOf(booking))
                  = SeatIsOccupied(flights, booking.flightNumber, SeatOf(booking))]_vars

---------------------------------------------------------------------------
(* Points and payments *)

RECURSIVE SumRedeemed(_)
\* the pointsRedeemed of a list of redemption records, added up
SumRedeemed(redemptions) ==
  IF redemptions = <<>> THEN 0
  ELSE Head(redemptions).pointsRedeemed + SumRedeemed(Tail(redemptions))

\* the customer has paid nothing, holds no points and has redeemed none
NothingEarned(customer) ==
  customer.payments = <<>> =>
    (customer.loyaltyPoints = 0 /\ customer.redemptions = <<>>)

\* C39: points are conserved: a customer without a payment has no points and
\* no redemption, and at every step loyaltyPoints plus the points of the
\* redemption records grows by the points the step's payment earned,
\* floor(amount x rate) for a successful payment of a member, and by nothing
\* in any other step; so the balance is always the points earned by the
\* payments less the points redeemed.
PointsAreConserved ==
  [][\A c \in Customers :
       LET before == customers[c]
           after == customers'[c]
           grown == (after.loyaltyPoints + SumRedeemed(after.redemptions))
                    - (before.loyaltyPoints + SumRedeemed(before.redemptions))
           a == response'.amount
       IN
       /\ NothingEarned(before) /\ NothingEarned(after)
       /\ IF /\ response'.op = "payment" /\ response'.status = 200
             /\ response'.customerId = c /\ before.enrolled
          THEN /\ Len(after.payments) = Len(before.payments) + 1
               /\ 10 * grown <= a * before.pointsPerDollar
               /\ a * before.pointsPerDollar < 10 * (grown + 1)
          ELSE grown = 0]_vars

\* of the 501 points of one payment 150 were redeemed and 351 are left
PartOfThePointsRedeemed ==
  /\ response.op = "redeemPoints" /\ response.status = 200
  /\ Len(customers["c1"].payments) = 1
  /\ Len(customers["c1"].redemptions) = 1
  /\ customers["c1"].redemptions[1].pointsRedeemed = 150
  /\ customers["c1"].loyaltyPoints = 351

\* how many elements of a list satisfy being for the flight number
CountFor(records, flightNumber) ==
  Cardinality({i \in 1..Len(records) : records[i].flightNumber = flightNumber})

\* C40: a customer is charged at most once per booking: for every customer
\* and flight number the payment records for the flight are never more than
\* the bookings the customer made for it.
PaymentsNeverExceedBookings ==
  \A c \in Customers :
    CountFor(customers[c].payments, "F1") <= CountFor(customers[c].bookings, "F1")

====
